---- MODULE Spec2Model ----
(***************************************************************************)
(* neva-edu-bot: the poll / detect / deliver / persist loop of             *)
(* src/src/service.py together with the JSON history store of              *)
(* src/src/storage.py.                                                     *)
(*                                                                         *)
(* Texts are sequences of one-character strings.  Timestamps are integers  *)
(* counted in ticks, DayLen ticks to a day, so that timedelta.days is a    *)
(* floor division.                                                         *)
(***************************************************************************)
EXTENDS Integers, Sequences, FiniteSets, TLC

\* ------------------------------------------------------------------ bounds
\* ticks per day (resolution of the clock)
DayLen == 2
\* service.py:20 sets 100; the model keeps the cap but scales it down
MAX_POSTS_COUNT == 2
\* service.py:84 defaults max_length to 4096; scaled down with the texts
DefaultMaxLength == 16
\* longest snapshot the parser returns
MaxSnapshot == 3
\* longest list handed to get_unpublished_posts in SpecDiff
MaxDiffLen == 2
\* longest text handed to split_message in SpecSplit
MaxTextLen == 5
\* largest max_length handed to split_message in SpecSplit
MaxSplitLength == 3
\* the most news items on a page of the site
MaxItems == 2

\* ------------------------------------------------------- program constants
MAX_POST_AGE_DAYS == 3
MAX_STORAGE_SIZE_MB == 10

\* ----------------------------------------------------------------- helpers
Range(s) == {s[i] : i \in DOMAIN s}

SeqsUpTo(S, n) == UNION {[1..k -> S] : k \in 0..n}

InjSeqsUpTo(S, n) ==
    {s \in SeqsUpTo(S, n) : \A i, j \in DOMAIN s : i # j => s[i] # s[j]}

\* ------------------------------------------------------------- types.py
AttachedFile(t, u) == [type |-> "AttachedFile", title |-> t, url |-> u]

\* a naive datetime value: `ticks` since the epoch of the model
datetime(n) == [type |-> "datetime", ticks |-> n, tzinfo |-> "none"]

\* a datetime value that carries a UTC offset (an aware datetime)
datetime_utc(n) == [type |-> "datetime", ticks |-> n, tzinfo |-> "+00:00"]

NewsPost(t, d, at, imp, l, c, kw, att) ==
    [title |-> t, description |-> d, posted_at |-> at, important |-> imp,
     link |-> l, category |-> c, keywords |-> kw, attachments |-> att]

\* ------------------------------------------------ the posts of the site
File1 == AttachedFile(<<"f">>, <<"u", "/", "f", ".", "p">>)
File2 == AttachedFile(<<"g">>, <<"u", "/", "g">>)

\* older than three days, younger than four, when the service starts
PostOld ==
    NewsPost(<<"A">>, <<"x">>, datetime(0), FALSE, <<"a">>, <<"c">>, <<>>, <<>>)
\* important, with keywords and two attachments
PostUrgent ==
    NewsPost(<<"B">>, <<"y">>, datetime(2 * DayLen), TRUE, <<"b">>, <<"c">>,
             << <<"k", " ", "w">> >>, <<File1, File2>>)
\* a long description: the rendered text needs more than one message
PostLong ==
    NewsPost(<<"C">>, <<"l", "o", ".", "n", "g", "\n", "z", "z">>,
             datetime(3 * DayLen),
             FALSE, <<"d">>, <<" ", "c">>, <<>>, <<File1>>)
\* PostOld with one field changed
PostEdited ==
    NewsPost(<<"A">>, <<"x">>, datetime(0), FALSE, <<"a">>, <<"c">>, << <<"k">> >>, <<>>)

\* a post whose posted_at carries a UTC offset
PostAware ==
    NewsPost(<<"D">>, <<"w">>, datetime_utc(2 * DayLen), FALSE, <<"e">>, <<"c">>,
             <<>>, <<>>)

Posts == {PostOld, PostUrgent, PostLong}

\* -------------------------------------------------- service.py: format_post
Whitespace == {" ", "\n", "\t"}

\* (mutant) periods are stripped like whitespace
RECURSIVE lstrip_periods(_)
lstrip_periods(text) ==
    IF text # <<>> /\ Head(text) \in Whitespace \cup {"."}
    THEN lstrip_periods(Tail(text))
    ELSE text

RECURSIVE lstrip(_)
lstrip(text) ==
    IF text # <<>> /\ Head(text) \in Whitespace THEN lstrip(Tail(text)) ELSE text

\* the text up to its last character that is no whitespace
rstrip(text) ==
    LET solid == {i \in DOMAIN text : text[i] \notin Whitespace}
    IN  IF solid = {} THEN <<>>
        ELSE SubSeq(text, 1, CHOOSE i \in solid : \A j \in solid : j <= i)

strip(text) == rstrip(lstrip(text))

\* value.replace(' ', '_')
replace_spaces(text) == [i \in DOMAIN text |-> IF text[i] = " " THEN "_" ELSE text[i]]

hash_tagged(value) == <<"#">> \o replace_spaces(strip(value))

RECURSIVE join(_, _)
join(sep, texts) ==
    IF texts = <<>> THEN <<>>
    ELSE IF Len(texts) = 1 THEN texts[1]
    ELSE texts[1] \o sep \o join(sep, Tail(texts))

Digit(n) == <<"0", "1", "2", "3", "4", "5", "6", "7", "8", "9">>[(n % 10) + 1]

\* f"{posted_at:%d.%m.%Y %H:%M}": the day, a dot, the time of day
strftime(dt) == <<Digit(dt.ticks \div DayLen), ".", Digit(dt.ticks % DayLen)>>

\* the three parts of the message joined by a blank line; the HTML markup
\* around link and title is left out, the field contents are kept
format_post(post) ==
    join(<<"\n", "\n">>,
         << (IF post.important THEN <<"!", " ">> ELSE <<>>) \o post.link \o post.title,
            post.description \o <<"\n", "\n">> \o strftime(post.posted_at),
            join(<<" ">>, [i \in 1..(1 + Len(post.keywords)) |->
                            hash_tagged((<<post.category>> \o post.keywords)[i])]) >>)

\* ------------------------------------------- service.py: split_message
\* text.rfind(ch) as a 1-based position, 0 when ch does not occur
rfind(text, ch) ==
    LET hits == {i \in DOMAIN text : text[i] = ch}
    IN  IF hits = {} THEN 0 ELSE CHOOSE i \in hits : \A j \in hits : j <= i

\* (mutant) the hard cut is made one character too late
split_idx_overlong(text, max_length) ==
    LET window == SubSeq(text, 1, max_length)
    IN  IF rfind(window, "\n") # 0 THEN rfind(window, "\n")
        ELSE IF rfind(window, ".") # 0 THEN rfind(window, ".")
        ELSE max_length + 1

\* (mutant) a period is preferred to a newline
split_idx_period_first(text, max_length) ==
    LET window == SubSeq(text, 1, max_length)
    IN  IF rfind(window, ".") # 0 THEN rfind(window, ".")
        ELSE IF rfind(window, "\n") # 0 THEN rfind(window, "\n")
        ELSE max_length

\* the length of the part cut off the front of a text longer than max_length
split_idx(text, max_length) ==
    LET window == SubSeq(text, 1, max_length)
    IN  IF rfind(window, "\n") # 0 THEN rfind(window, "\n")
        ELSE IF rfind(window, ".") # 0 THEN rfind(window, ".")
        ELSE max_length

RECURSIVE split_loop(_, _)
split_loop(text, max_length) ==
    IF text = <<>> THEN <<>>
    ELSE IF Len(text) <= max_length THEN <<text>>
    ELSE LET cut == split_idx(text, max_length)
         IN  <<SubSeq(text, 1, cut)>>
             \o split_loop(lstrip(SubSeq(text, cut + 1, Len(text))), max_length)

split_message(text, max_length) ==
    IF Len(text) <= max_length THEN <<text>> ELSE split_loop(text, max_length)

\* ---------------------------------- service.py: get_unpublished_posts
\* `post in old_posts`: a scan of the list comparing with ==
\* (mutant) posts compared by title instead of by all their fields
RECURSIVE list_contains_by_title(_, _)
list_contains_by_title(lst, x) ==
    IF lst = <<>> THEN FALSE
    ELSE IF lst[1].title = x.title THEN TRUE
    ELSE list_contains_by_title(Tail(lst), x)

RECURSIVE list_contains(_, _)
list_contains(lst, x) ==
    IF lst = <<>> THEN FALSE
    ELSE IF lst[1] = x THEN TRUE
    ELSE list_contains(Tail(lst), x)

RECURSIVE get_unpublished_posts(_, _)
get_unpublished_posts(old_posts, actual_posts) ==
    IF actual_posts = <<>> THEN <<>>
    ELSE (IF list_contains(old_posts, actual_posts[1]) THEN <<>>
          ELSE <<actual_posts[1]>>)
         \o get_unpublished_posts(old_posts, Tail(actual_posts))

\* ------------------------------------------------------ list.sort / sorted
\* a stable sort: an element is placed after the elements that are Less than
\* it and after the elements before it in s that it is not Less than
stable_sort(s, Less(_, _)) ==
    LET place(i) ==
            Cardinality({j \in DOMAIN s :
                            \/ Less(s[j], s[i])
                            \/ ~Less(s[i], s[j]) /\ j <= i})
    IN  [k \in DOMAIN s |-> s[CHOOSE i \in DOMAIN s : place(i) = k]]

\* (mutant) the key of the delivery order without the importance
delivery_key_less_by_date(a, b) == a.posted_at.ticks < b.posted_at.ticks

\* key=lambda post: (not post.important, post.posted_at), ascending
delivery_key_less(a, b) ==
    \/ a.important /\ ~b.important
    \/ a.important = b.important /\ a.posted_at.ticks < b.posted_at.ticks

sorted_for_delivery(unpublished) == stable_sort(unpublished, delivery_key_less)

\* key=lambda post: post.posted_at, reverse=True
history_key_less(a, b) == a.posted_at.ticks > b.posted_at.ticks

sort_history(posts) == stable_sort(posts, history_key_less)

\* `now - post.posted_at` with now = datetime.now(), a naive datetime:
\* subtracting an aware datetime raises TypeError
age_raises(posts) == \E i \in DOMAIN posts : posts[i].posted_at.tzinfo # "none"

\* (now - post.posted_at).days <= MAX_POST_AGE_DAYS
is_fresh(post, t) == ((t - post.posted_at.ticks) \div DayLen) <= MAX_POST_AGE_DAYS

\* (mutant) the history is filtered and sorted but not truncated
evict_uncapped(posts, t) ==
    sort_history(SelectSeq(posts, LAMBDA p : is_fresh(p, t)))

\* the filter / sort / truncate of rotation and of the post-delivery merge
evict(posts, t) ==
    LET kept   == SelectSeq(posts, LAMBDA p : is_fresh(p, t))
        sorted == sort_history(kept)
    IN  SubSeq(sorted, 1, IF Len(sorted) < MAX_POSTS_COUNT THEN Len(sorted)
                          ELSE MAX_POSTS_COUNT)

\* ------------------------------------------------------------ storage.py
\* datetime.isoformat(): the date part and the time-of-day part
isoformat(dt) == <<dt.ticks \div DayLen, dt.ticks % DayLen, dt.tzinfo>>

fromisoformat(value) ==
    [type |-> "datetime", ticks |-> value[1] * DayLen + value[2],
     tzinfo |-> value[3]]

\* str(obj) of a dataclass instance: its repr, a plain string
str(obj) == [type |-> "str", title |-> obj.title, url |-> obj.url]

\* Storage._serialize, json.dump's `default` for what JSON cannot encode
_serialize(obj) ==
    IF obj.type = "datetime"
    THEN [type |-> "dict", _type |-> "datetime", value |-> isoformat(obj)]
    ELSE str(obj)

\* json.dump of one element of a list field: a str is written as it is
json_default(v) == IF v.type = "str" THEN v ELSE _serialize(v)

\* Storage.save: item.__dict__ written by json.dump(default=self._serialize)
json_dump_item(item) ==
    [title |-> item.title, description |-> item.description,
     posted_at |-> _serialize(item.posted_at), important |-> item.important,
     link |-> item.link, category |-> item.category, keywords |-> item.keywords,
     attachments |-> [i \in DOMAIN item.attachments |->
                         json_default(item.attachments[i])]]

\* Storage._deserialize on one JSON value of an item
_deserialize(obj) ==
    IF obj.type = "dict" /\ obj._type = "datetime" THEN fromisoformat(obj.value)
    ELSE obj

\* cls(**self._deserialize(item, cls)) for one item of the file
load_item(d) ==
    [title |-> d.title, description |-> d.description,
     posted_at |-> _deserialize(d.posted_at), important |-> d.important,
     link |-> d.link, category |-> d.category, keywords |-> d.keywords,
     attachments |-> [i \in DOMAIN d.attachments |-> _deserialize(d.attachments[i])]]

\* The history file.  kind: "missing"; "posts" (a JSON list of post dicts);
\* "not_json" (json.load raises JSONDecodeError: truncated or garbled text);
\* "not_posts" (another exception: bytes that are no UTF-8, or JSON that is
\* no list of post dicts).  size_mb: st_size / (1024 * 1024).
MissingFile == [kind |-> "missing", items |-> <<>>, size_mb |-> 0]

JsonFile(items) ==
    [kind |-> "posts", items |-> [i \in DOMAIN items |-> json_dump_item(items[i])],
     size_mb |-> 1]

\* Storage.load: the list returned, the file left behind and the files
\* moved to a .corrupted_<timestamp>.json name
load(f) ==
    IF f.kind = "missing"
    THEN [result |-> <<>>, file |-> f, corrupted |-> {}]
    ELSE IF f.kind = "posts"
    THEN [result |-> [i \in DOMAIN f.items |-> load_item(f.items[i])],
          file |-> f, corrupted |-> {}]
    ELSE IF f.kind = "not_json"
    THEN [result |-> <<>>, file |-> MissingFile, corrupted |-> {f}]
    ELSE [result |-> <<>>, file |-> f, corrupted |-> {}]

\* Storage.save.  outcome: "ok"; "open_failed" (open(.., 'w') raises, the file
\* is untouched); "write_failed" (the file was truncated by open and the write
\* stopped part-way).  Anything but "ok" raises StorageError.
SaveOutcomes == {"ok", "open_failed", "write_failed"}

save(f, items, outcome) ==
    IF outcome = "ok" THEN JsonFile(items)
    ELSE IF outcome = "open_failed" THEN f
    ELSE [kind |-> "not_json", items |-> <<>>, size_mb |-> 0]

\* ------------------------------------------------- service.py: send_post
\* message = format_post(post); parts = self.split_message(message), for
\* every post the service can send
message_parts ==
    [post \in Posts |-> split_message(format_post(post), DefaultMaxLength)]

\* What the transport does to one attachment: the download fails
\* (_download_file returns None), send_document raises, or both succeed.
AttachmentOutcomes == {"ok", "download_failed", "send_failed"}

\* the loop over the text parts; fail_at = k: bot.send_message raises on the
\* k-th part, fail_at = 0: no send_message raises
RECURSIVE send_parts(_, _, _)
send_parts(parts, k, fail_at) ==
    IF k > Len(parts) THEN [sent |-> Len(parts), raised |-> FALSE]
    ELSE IF k = fail_at THEN [sent |-> k - 1, raised |-> TRUE]
    ELSE send_parts(parts, k + 1, fail_at)

\* the loop over post.attachments; both failures are caught and `continue`
RECURSIVE send_attachments(_, _, _)
send_attachments(attachments, j, att_out) ==
    IF j > Len(attachments) THEN [downloads |-> 0, downloaded |-> 0, documents |-> 0]
    ELSE LET rest == send_attachments(attachments, j + 1, att_out)
         IN  [downloads  |-> rest.downloads + 1,
              downloaded |-> rest.downloaded
                             + (IF att_out[j] = "download_failed" THEN 0 ELSE 1),
              documents  |-> rest.documents + (IF att_out[j] = "ok" THEN 1 ELSE 0)]

\* (mutant) a failure of an attachment ends send_post like a failure of the
\* text does
send_post_attachment_fatal(post, fail_at, att_out) ==
    LET parts == message_parts[post]
        text  == send_parts(parts, 1, fail_at)
        bad   == {j \in DOMAIN post.attachments : att_out[j] # "ok"}
        upto  == IF bad = {} THEN Len(post.attachments)
                 ELSE CHOOSE j \in bad : \A k \in bad : j <= k
        files == IF text.raised
                 THEN [downloads |-> 0, downloaded |-> 0, documents |-> 0]
                 ELSE send_attachments(SubSeq(post.attachments, 1, upto), 1, att_out)
    IN  [result |-> ~text.raised /\ bad = {}, parts |-> Len(parts),
         parts_sent |-> text.sent, downloads |-> files.downloads,
         downloaded |-> files.downloaded, documents |-> files.documents]

\* (mutant) a post counts as sent as soon as one of its segments went out
send_post_partial_ok(post, fail_at, att_out) ==
    LET parts == message_parts[post]
        text  == send_parts(parts, 1, fail_at)
        files == IF text.raised
                 THEN [downloads |-> 0, downloaded |-> 0, documents |-> 0]
                 ELSE send_attachments(post.attachments, 1, att_out)
    IN  [result |-> text.sent >= 1, parts |-> Len(parts), parts_sent |-> text.sent,
         downloads |-> files.downloads, downloaded |-> files.downloaded,
         documents |-> files.documents]

send_post(post, fail_at, att_out) ==
    LET parts == message_parts[post]
        text  == send_parts(parts, 1, fail_at)
        files == IF text.raised
                 THEN [downloads |-> 0, downloaded |-> 0, documents |-> 0]
                 ELSE send_attachments(post.attachments, 1, att_out)
    IN  [result |-> ~text.raised, parts |-> Len(parts), parts_sent |-> text.sent,
         downloads |-> files.downloads, downloaded |-> files.downloaded,
         documents |-> files.documents]

\* (mutant) the loop over the batch ends with the first failed send
batch_done_on_failure(log, batch) ==
    \/ Len(log) = Len(batch)
    \/ log # <<>> /\ ~log[Len(log)].ok

\* start(): `for post in sorted_posts` has gone through the whole batch
batch_done(log, batch) == Len(log) = Len(batch)

\* (mutant) every attempted post counts as sent
record_sent_always(sent, post, result) == Append(sent, post)

\* start(): if await self.send_post(post): successfully_sent_posts.append(post)
record_sent(sent, post, result) == IF result THEN Append(sent, post) ELSE sent

\* What an observer of the chat records of incomplete deliveries.  partial:
\* the posts whose latest copy in the chat lacks its last segments; repeated:
\* the posts of which the chat got its first segments again after such a
\* copy.  Nothing is recorded while the chat is not watched.
EmptyChat == [watched |-> TRUE, partial |-> {}, repeated |-> {}]

Unwatched == [watched |-> FALSE, partial |-> {}, repeated |-> {}]

\* the record after a send_post call whose send_message calls delivered the
\* first out.parts_sent of the out.parts segments of the post
deliver(box, post, out) ==
    IF ~box.watched \/ out.parts_sent = 0 THEN box
    ELSE [watched  |-> TRUE,
          partial  |-> IF out.parts_sent < out.parts
                       THEN box.partial \cup {post}
                       ELSE box.partial \ {post},
          repeated |-> IF post \in box.partial
                       THEN box.repeated \cup {post}
                       ELSE box.repeated]

\* ------------------------------------------------------------- parser.py
\* the fields of the dataclass NewsPost; none of them has a default
NewsPostFields ==
    {"title", "description", "posted_at", "important", "link", "category",
     "keywords", "attachments"}

\* NewsPost(**kwargs): the __init__ that @dataclass generates raises TypeError
\* unless every field gets its argument
NewsPost__init__(kwargs) ==
    IF DOMAIN kwargs = NewsPostFields
    THEN [raised |-> "none", value |-> kwargs]
    ELSE [raised |-> "TypeError", value |-> <<>>]

\* A div.news-item of the page.  kind: "well_formed" (the expected structure
\* and a date dateparser recognises); "no_h2" (no h2 tag); "no_desc" (an h2
\* but no div.desc: find returns None); "bad_date" (dateparser returns None).
\* post: what a well-formed item shows of the post.
ItemKinds == {"well_formed", "no_h2", "no_desc", "bad_date"}

NewsItems == [kind : ItemKinds, post : Posts]

\* the response to GET /novosti.html: ok is HTTPStatus(status).is_success
Responses == [ok : BOOLEAN, items : SeqsUpTo(NewsItems, MaxItems)]

NoResponse == [ok |-> FALSE, items |-> <<>>]

\* the body of `for post_markup in soup.find_all("div", class_="news-item")`
parse_item(item) ==
    IF item.kind = "no_h2" THEN [raised |-> "none", posts |-> <<>>]
    ELSE IF item.kind = "no_desc" THEN [raised |-> "AttributeError", posts |-> <<>>]
    ELSE IF item.kind = "bad_date" THEN [raised |-> "ValueError", posts |-> <<>>]
    ELSE LET post == NewsPost__init__(
                         [title |-> item.post.title,
                          description |-> item.post.description,
                          posted_at |-> item.post.posted_at,
                          important |-> item.post.important,
                          link |-> item.post.link,
                          category |-> item.post.category,
                          keywords |-> item.post.keywords])
         IN  IF post.raised = "none"
             THEN [raised |-> "none", posts |-> <<post.value>>]
             ELSE [raised |-> post.raised, posts |-> <<>>]

\* the loop of parse: the first exception ends it
RECURSIVE parse_loop(_, _)
parse_loop(items, posts) ==
    IF items = <<>> THEN [raised |-> "none", posts |-> posts]
    ELSE LET one == parse_item(Head(items))
         IN  IF one.raised = "none"
             THEN parse_loop(Tail(items), posts \o one.posts)
             ELSE [raised |-> one.raised, posts |-> <<>>]

\* Bs4NewsParser.parse: fetch_markup raises ValueError unless the status is 2xx
parse(resp) ==
    IF ~resp.ok THEN [raised |-> "ValueError", posts |-> <<>>]
    ELSE parse_loop(resp.items, <<>>)

\* ------------------------------------------------------------------ state
VARIABLES
    pc,                      \* where the process is
    now,                     \* datetime.now(), in ticks
    file,                    \* data/sent_posts.json
    backups,                 \* contents of the *.backup.json files
    corrupted,               \* contents of the *.corrupted_*.json files
    raised,                  \* the exception that ended the process, or "none"
    current_posts,           \* Service.current_posts
    actual_posts,            \* start(): the snapshot of this cycle
    unpublished_posts,       \* start(): the unpublished posts of this cycle
    sorted_posts,            \* start(): the delivery order of this cycle
    successfully_sent_posts, \* start(): posts sent in this cycle
    attempted,               \* the send_post calls of this cycle, in order
    last_attempt,            \* the last send_post call: its post and what it did
    saved,                   \* the caller of the Storage.save just made, or "none"
    session_closed,          \* __aexit__: bot.session.close() has returned
    cleanup_done,            \* __aexit__: cleanup_old_backups() has returned
    split_input,             \* split_message: the text it was called with
    split_text,              \* split_message: `text`, the text still to be split
    split_max_length,        \* split_message: its `max_length` argument
    split_parts,             \* split_message: `parts`, the parts cut so far
    response,                \* Bs4NewsParser: the response to GET /novosti.html
    chat                     \* the record an observer keeps of the chat

vars == <<pc, now, file, backups, corrupted, raised, current_posts, actual_posts,
          unpublished_posts, sorted_posts, successfully_sent_posts, attempted,
          last_attempt, saved, session_closed, cleanup_done, split_input,
          split_text, split_max_length, split_parts, response, chat>>

\* the state of __aexit__ and the locals of a split_message call
shutdown == <<session_closed, cleanup_done>>
splitting == <<split_input, split_text, split_max_length, split_parts>>
\* what lies outside the process: the page of the site, the chat
outside == <<response, chat>>

disk == <<file, backups, corrupted, saved>>
cycle == <<actual_posts, unpublished_posts, sorted_posts, successfully_sent_posts,
           attempted, last_attempt>>

NoAttempt == [post |-> <<>>, fail_at |-> 0,
              out |-> [result |-> FALSE, parts |-> 0, parts_sent |-> 0,
                       downloads |-> 0, downloaded |-> 0, documents |-> 0]]

InitialNow == MAX_POST_AGE_DAYS * DayLen + 1
MaxNow == (MAX_POST_AGE_DAYS + 1) * DayLen

\* what the parser can return: the news items of the page are distinct
Snapshots == InjSeqsUpTo(Posts, MaxSnapshot)

\* histories found on disk when the service is first constructed: written by
\* an earlier run, longer than the cap and unsorted (a legacy file), or with
\* a timestamp that has a UTC offset
InitialHistories ==
    { <<>>, <<PostUrgent>>, <<PostLong, PostOld>>, <<PostAware>>,
      <<PostOld, PostLong, PostEdited, PostUrgent>> }

InitialFiles ==
    {MissingFile}
    \cup {[JsonFile(h) EXCEPT !.size_mb = m] :
            h \in InitialHistories,
            m \in {MAX_STORAGE_SIZE_MB, MAX_STORAGE_SIZE_MB + 1}}
    \cup {[kind |-> k, items |-> <<>>, size_mb |-> m] :
            k \in {"not_json", "not_posts"},
            m \in {1, MAX_STORAGE_SIZE_MB + 1}}

Volatile ==
    /\ current_posts = <<>>
    /\ actual_posts = <<>>
    /\ unpublished_posts = <<>>
    /\ sorted_posts = <<>>
    /\ successfully_sent_posts = <<>>
    /\ attempted = <<>>
    /\ last_attempt = NoAttempt
    /\ raised = "none"
    /\ session_closed = FALSE
    /\ cleanup_done = FALSE
    /\ split_input = <<>>
    /\ split_text = <<>>
    /\ split_max_length = DefaultMaxLength
    /\ split_parts = <<>>
    /\ response = NoResponse
    /\ chat = Unwatched

Init ==
    /\ pc = "init"
    /\ now = InitialNow
    /\ file \in InitialFiles
    /\ backups = {}
    /\ corrupted = {}
    /\ saved = "none"
    /\ Volatile

\* --------------------------------------------- Service.__init__, startup
\* Storage.__init__: creates the file when there is none
StorageInit ==
    /\ pc = "init"
    /\ IF file.kind # "missing"
       THEN /\ pc' = "rotate"
            /\ UNCHANGED <<file, saved, raised>>
       ELSE \E outcome \in SaveOutcomes :
              /\ file' = save(file, <<>>, outcome)
              /\ saved' = IF outcome = "ok" THEN "init" ELSE saved
              /\ pc' = IF outcome = "ok" THEN "rotate" ELSE "crashed"
              /\ raised' = IF outcome = "ok" THEN raised ELSE "StorageError"
    /\ UNCHANGED <<now, backups, corrupted, current_posts, cycle>>
    /\ UNCHANGED <<shutdown, splitting, outside>>

\* Service._rotate_storage_if_needed
RotateStorage ==
    /\ pc = "rotate"
    /\ IF file.kind = "missing" \/ ~(file.size_mb > MAX_STORAGE_SIZE_MB)
       THEN /\ pc' = "load"
            /\ UNCHANGED <<file, backups, corrupted, saved, raised>>
       ELSE LET loaded == load(file)
                kept   == evict(loaded.result, now)
            IN  /\ corrupted' = corrupted \cup loaded.corrupted
                /\ IF age_raises(loaded.result)
                   THEN \* the age filter raises before anything is written
                        /\ file' = loaded.file
                        /\ pc' = "crashed"
                        /\ raised' = "TypeError"
                        /\ UNCHANGED <<backups, saved>>
                   ELSE IF loaded.file.kind = "missing"
                   THEN \* shutil.copy2 of a file that load has renamed away
                        /\ file' = loaded.file
                        /\ pc' = "crashed"
                        /\ raised' = "FileNotFoundError"
                        /\ UNCHANGED <<backups, saved>>
                   ELSE \E outcome \in SaveOutcomes :
                          /\ backups' = backups \cup {loaded.file}
                          /\ file' = save(loaded.file, kept, outcome)
                          /\ saved' = IF outcome = "ok" THEN "rotate" ELSE saved
                          /\ pc' = IF outcome = "ok" THEN "load" ELSE "crashed"
                          /\ raised' = IF outcome = "ok" THEN raised
                                       ELSE "StorageError"
    /\ UNCHANGED <<now, current_posts, cycle>>
    /\ UNCHANGED <<shutdown, splitting, outside>>

\* self.current_posts = self.storage.load(NewsPost)
LoadHistory ==
    /\ pc = "load"
    /\ LET loaded == load(file)
       IN  /\ current_posts' = loaded.result
           /\ file' = loaded.file
           /\ corrupted' = corrupted \cup loaded.corrupted
    /\ saved' = "none"
    /\ pc' = "fetching"
    /\ UNCHANGED <<now, backups, raised, cycle>>
    /\ UNCHANGED <<shutdown, splitting, outside>>

\* ------------------------------------------------- Service.start, one cycle
\* actual_posts = await self.parser.parse()
ParseOk ==
    /\ pc = "fetching"
    /\ \E snapshot \in Snapshots : actual_posts' = snapshot
    /\ pc' = "detecting"
    /\ UNCHANGED <<now, disk, raised, current_posts, unpublished_posts,
                   sorted_posts, successfully_sent_posts, attempted, last_attempt>>
    /\ UNCHANGED <<shutdown, splitting, outside>>

\* (mutant) an exception of the parser ends the loop
ParseFail_fatal ==
    /\ pc = "fetching"
    /\ pc' = "crashed"
    /\ raised' = "Exception"
    /\ UNCHANGED <<now, disk, current_posts, cycle, shutdown, splitting, outside>>

\* parse() raises: log, sleep, continue
ParseFail ==
    /\ pc = "fetching"
    /\ pc' = "sleeping"
    /\ UNCHANGED <<now, disk, raised, current_posts, cycle>>
    /\ UNCHANGED <<shutdown, splitting, outside>>

\* (mutant) the history is cut down to the posts still in the snapshot
Detect_pruning ==
    /\ pc = "detecting"
    /\ unpublished_posts' = get_unpublished_posts(current_posts, actual_posts)
    /\ current_posts' =
           SelectSeq(current_posts, LAMBDA p : list_contains(actual_posts, p))
    /\ IF unpublished_posts' = <<>>
       THEN /\ pc' = "sleeping"
            /\ UNCHANGED sorted_posts
       ELSE /\ pc' = "delivering"
            /\ sorted_posts' = sorted_for_delivery(unpublished_posts')
    /\ UNCHANGED <<now, disk, raised, actual_posts, successfully_sent_posts,
                   attempted, last_attempt, shutdown, splitting, outside>>

\* get_unpublished_posts and, when there is something to send, sorted(...)
Detect ==
    /\ pc = "detecting"
    /\ unpublished_posts' = get_unpublished_posts(current_posts, actual_posts)
    /\ IF unpublished_posts' = <<>>
       THEN /\ pc' = "sleeping"
            /\ UNCHANGED sorted_posts
       ELSE /\ pc' = "delivering"
            /\ sorted_posts' = sorted_for_delivery(unpublished_posts')
    /\ UNCHANGED <<now, disk, raised, current_posts, actual_posts,
                   successfully_sent_posts, attempted, last_attempt>>
    /\ UNCHANGED <<shutdown, splitting, outside>>

\* one pass of `for post in sorted_posts`: send_post and its bookkeeping
SendPost ==
    /\ pc = "delivering"
    /\ ~batch_done(attempted, sorted_posts)
    /\ LET post  == sorted_posts[Len(attempted) + 1]
           parts == message_parts[post]
       IN  \E fail_at \in 0..Len(parts),
              att_out \in [DOMAIN post.attachments -> AttachmentOutcomes] :
             LET out == send_post(post, fail_at, att_out)
             IN  /\ last_attempt' = [post |-> post, fail_at |-> fail_at, out |-> out]
                 /\ attempted' = Append(attempted, [post |-> post, ok |-> out.result])
                 /\ successfully_sent_posts' =
                        record_sent(successfully_sent_posts, post, out.result)
                 /\ chat' = deliver(chat, post, out)
    /\ UNCHANGED <<pc, now, disk, raised, current_posts, actual_posts,
                   unpublished_posts, sorted_posts>>
    /\ UNCHANGED <<shutdown, splitting, response>>

\* after the loop: merge the sent posts into the history and save it; the
\* locals of the cycle are dead from here on (the log of the attempts is kept
\* until the cycle has slept).  An exception of the merge is caught by the
\* handler of the cycle, which logs it and goes on to the sleep.
Persist ==
    /\ pc = "delivering"
    /\ batch_done(attempted, sorted_posts)
    /\ IF successfully_sent_posts = <<>>
       THEN UNCHANGED <<current_posts, file, saved>>
       ELSE LET extended == current_posts \o successfully_sent_posts
            IN  IF age_raises(extended)
                THEN \* self.current_posts.extend(..) is done, the filter raises
                     /\ current_posts' = extended
                     /\ UNCHANGED <<file, saved>>
                ELSE /\ current_posts' = evict(extended, now)
                     /\ \E outcome \in SaveOutcomes :
                          /\ file' = save(file, current_posts', outcome)
                          /\ saved' = IF outcome = "ok" THEN "merge" ELSE "none"
    /\ pc' = "sleeping"
    /\ actual_posts' = <<>>
    /\ unpublished_posts' = <<>>
    /\ sorted_posts' = <<>>
    /\ successfully_sent_posts' = <<>>
    /\ last_attempt' = NoAttempt
    /\ UNCHANGED <<now, backups, corrupted, raised, attempted>>
    /\ UNCHANGED <<shutdown, splitting, outside>>

\* await asyncio.sleep(30)
Sleep ==
    /\ pc = "sleeping"
    /\ pc' = "fetching"
    /\ now' \in {t \in {now, now + 1} : t <= MaxNow}
    /\ actual_posts' = <<>>
    /\ unpublished_posts' = <<>>
    /\ sorted_posts' = <<>>
    /\ successfully_sent_posts' = <<>>
    /\ attempted' = <<>>
    /\ saved' = "none"
    /\ UNCHANGED <<file, backups, corrupted, last_attempt, raised, current_posts>>
    /\ UNCHANGED <<shutdown, splitting, outside>>

\* ------------------------------------------------ cancellation of start
\* the states in which start() is suspended at an await: parser.parse(),
\* the sends and the pause of send_post's loop, asyncio.sleep(30)
AwaitStates == {"fetching", "delivering", "sleeping"}

\* The task is cancelled: CancelledError is raised at the await, passes every
\* `except Exception` and reaches the `finally` of start; the locals of the
\* cycle are gone.
Cancel ==
    /\ pc \in AwaitStates
    /\ pc' = "exiting"
    /\ raised' = "CancelledError"
    /\ actual_posts' = <<>>
    /\ unpublished_posts' = <<>>
    /\ sorted_posts' = <<>>
    /\ successfully_sent_posts' = <<>>
    /\ attempted' = <<>>
    /\ last_attempt' = NoAttempt
    /\ saved' = "none"
    /\ UNCHANGED <<now, file, backups, corrupted, current_posts, shutdown,
                   splitting, outside>>

\* (mutant) __aexit__ without the cleanup of the backups
AExit_session_only ==
    /\ pc = "exiting"
    /\ session_closed' = TRUE
    /\ pc' = "stopped"
    /\ UNCHANGED <<now, file, backups, corrupted, raised, saved, current_posts,
                   cycle, cleanup_done, splitting, outside>>

\* `finally: await self.__aexit__(None, None, None)`: the session is closed,
\* then cleanup_old_backups unlinks the backups older than max_age_days
AExit ==
    /\ pc = "exiting"
    /\ session_closed' = TRUE
    /\ cleanup_done' = TRUE
    /\ backups' \in SUBSET backups
    /\ pc' = "stopped"
    /\ UNCHANGED <<now, file, corrupted, raised, saved, current_posts, cycle,
                   splitting, outside>>

Next ==
    \/ StorageInit
    \/ RotateStorage
    \/ LoadHistory
    \/ ParseOk
    \/ ParseFail
    \/ Detect
    \/ SendPost
    \/ Persist
    \/ Sleep
    \/ Cancel
    \/ AExit

Spec == Init /\ [][Next]_vars

\* The loop under a fair scheduler: the event loop runs the task whenever it
\* can go on.  The service starts without a history file, with a history
\* whose timestamp makes the merge raise, or with an oversized history.
LiveFiles ==
    { MissingFile,
      [JsonFile(<<PostAware>>) EXCEPT !.size_mb = MAX_STORAGE_SIZE_MB],
      [JsonFile(<<PostLong, PostOld>>) EXCEPT !.size_mb = MAX_STORAGE_SIZE_MB + 1] }

InitLive == Init /\ file \in LiveFiles

\* the same service with the chat watched from the start
InitWatched ==
    /\ pc = "init"
    /\ now = InitialNow
    /\ file \in LiveFiles
    /\ backups = {}
    /\ corrupted = {}
    /\ saved = "none"
    /\ current_posts = <<>>
    /\ actual_posts = <<>>
    /\ unpublished_posts = <<>>
    /\ sorted_posts = <<>>
    /\ successfully_sent_posts = <<>>
    /\ attempted = <<>>
    /\ last_attempt = NoAttempt
    /\ raised = "none"
    /\ session_closed = FALSE
    /\ cleanup_done = FALSE
    /\ split_input = <<>>
    /\ split_text = <<>>
    /\ split_max_length = DefaultMaxLength
    /\ split_parts = <<>>
    /\ response = NoResponse
    /\ chat = EmptyChat

SpecLive == InitLive /\ [][Next]_vars /\ WF_vars(Next)

SpecWatched == InitWatched /\ [][Next]_vars

\* ------------------------------------------ get_unpublished_posts alone
\* A post as it comes back from the history file.
PostUrgentLoaded == load_item(json_dump_item(PostUrgent))

DiffPosts == Posts \cup {PostEdited, PostUrgentLoaded}

InitDiff ==
    /\ pc = "diff"
    /\ current_posts \in SeqsUpTo(DiffPosts, MaxDiffLen)
    /\ actual_posts \in SeqsUpTo(DiffPosts, MaxDiffLen)
    /\ unpublished_posts = <<>>
    /\ sorted_posts = <<>>
    /\ successfully_sent_posts = <<>>
    /\ attempted = <<>>
    /\ last_attempt = NoAttempt
    /\ now = InitialNow
    /\ file = MissingFile
    /\ backups = {}
    /\ corrupted = {}
    /\ saved = "none"
    /\ raised = "none"
    /\ session_closed = FALSE
    /\ cleanup_done = FALSE
    /\ split_input = <<>>
    /\ split_text = <<>>
    /\ split_max_length = DefaultMaxLength
    /\ split_parts = <<>>
    /\ response = NoResponse
    /\ chat = Unwatched

\* unpublished_posts = self.get_unpublished_posts(old_posts, actual_posts)
DiffApply ==
    /\ pc = "diff"
    /\ unpublished_posts' = get_unpublished_posts(current_posts, actual_posts)
    /\ pc' = "diffed"
    /\ UNCHANGED <<now, disk, raised, current_posts, actual_posts, sorted_posts,
                   successfully_sent_posts, attempted, last_attempt>>
    /\ UNCHANGED <<shutdown, splitting, outside>>

NextDiff == DiffApply

SpecDiff == InitDiff /\ [][NextDiff]_vars

\* the positions of the snapshot whose post equals no post of the history
NewPositions(H, S) == {i \in DOMAIN S : \A j \in DOMAIN H : H[j] # S[i]}

\* the k-th smallest element of a set of positions
KthOf(I, k) == CHOOSE i \in I : Cardinality({j \in I : j <= i}) = k

\* C1: get_unpublished_posts(H, S) is, in the order of S, exactly the elements
\* of S that equal (in all fields) no element of H; it is empty when every
\* element of S equals some element of H, and it is S when H is empty.
C1_UnpublishedIsOrderedDifference ==
    pc = "diffed" =>
        LET H == current_posts
            S == actual_posts
            R == unpublished_posts
            I == NewPositions(H, S)
        IN  /\ Len(R) = Cardinality(I)
            /\ \A k \in 1..Len(R) : R[k] = S[KthOf(I, k)]
            /\ (Range(S) \subseteq Range(H) => R = <<>>)
            /\ (H = <<>> => R = S)

\* a snapshot of which one post is dropped and a post that differs from a
\* history entry in one field only is kept
C1_Witness ==
    /\ pc = "diffed"
    /\ current_posts = <<PostOld, PostUrgent>>
    /\ actual_posts = <<PostEdited, PostOld>>
    /\ unpublished_posts = <<PostEdited>>

\* --------------------------------------------------- the delivery batch
PostsOf(log) == [k \in DOMAIN log |-> log[k].post]

SentIn(log) == {log[k].post : k \in {j \in DOMAIN log : log[j].ok}}

FailedIn(log) == {log[k].post : k \in {j \in DOMAIN log : ~log[j].ok}}

\* post p is an entry of the history file f: an item of f decodes to a post
\* equal to p
OnDisk(f, p) ==
    /\ f.kind = "posts"
    /\ \E i \in DOMAIN f.items : load_item(f.items[i]) = p

\* the step that ends the delivery loop of a cycle (merge and save)
EndsDelivery == pc = "delivering" /\ pc' = "sleeping"

\* Only sent posts enter the histories, and a failed post is retried.
OnlySentPostsAreMerged ==
    /\ EndsDelivery =>
         /\ \A p \in Range(current_posts') :
                p \in Range(current_posts) \/ p \in SentIn(attempted)
         /\ \A p \in Posts :
                (OnDisk(file', p) /\ ~OnDisk(file, p)) => p \in Range(current_posts')
         /\ \A p \in FailedIn(attempted) :
                /\ p \notin Range(current_posts')
                /\ OnDisk(file', p) => OnDisk(file, p)
         \* whatever snapshot comes next, a failed post in it is unpublished
         /\ \A S \in Snapshots :
                \A p \in FailedIn(attempted) \cap Range(S) :
                    p \in Range(get_unpublished_posts(current_posts', S))
         \* and every unpublished post of a cycle is attempted
         /\ Range(unpublished_posts) \subseteq Range(PostsOf(attempted))
    \* the history the next cycle compares with is the one this cycle left
    /\ pc \in {"sleeping", "fetching"} => current_posts' = current_posts
    /\ (pc = "detecting" /\ pc' = "delivering") =>
           unpublished_posts' = get_unpublished_posts(current_posts, actual_posts)

\* C2 as stated: only posts whose send succeeded are added to the in-memory
\* and to the persisted history; a post whose send failed is in neither
\* after the cycle, and it is unpublished and attempted again in the next
\* cycle whose snapshot contains it.
C2_FailedPostInNeitherHistory ==
    [][ /\ OnlySentPostsAreMerged
        /\ EndsDelivery =>
             \A p \in FailedIn(attempted) : ~OnDisk(file', p) ]_vars

\* C2 as amended: only posts whose send succeeded are added to the in-memory
\* and to the persisted history; a post whose send failed is not in the
\* in-memory history after the cycle and is not added to the history file
\* by the cycle (it can still be in a file that an earlier cycle wrote and
\* that a failed save left in place), and it is unpublished and attempted again in the next cycle
\* whose snapshot contains it.
C2_OnlySentPostsAreMerged == [][OnlySentPostsAreMerged]_vars

\* a cycle in which one post was sent and merged while another failed
C2_Witness ==
    /\ pc = "sleeping"
    /\ saved = "merge"
    /\ SentIn(attempted) = {PostOld}
    /\ FailedIn(attempted) = {PostUrgent}
    /\ PostOld \in Range(current_posts)
    /\ OnDisk(file, PostOld)
    /\ PostUrgent \notin Range(current_posts)
    /\ ~OnDisk(file, PostUrgent)

\* C3: the posts of a cycle are sent with every important post before every
\* other post and, within each of the two tiers, in non-decreasing posted_at
\* order.
C3_DeliveryOrder ==
    \A i, j \in DOMAIN attempted :
        i < j =>
            LET a == attempted[i].post
                b == attempted[j].post
            IN  /\ b.important => a.important
                /\ a.important = b.important =>
                       a.posted_at.ticks <= b.posted_at.ticks

\* three posts sent in an order that is not the order of the snapshot
C3_Witness ==
    /\ pc = "delivering"
    /\ actual_posts = <<PostLong, PostUrgent, PostOld>>
    /\ PostsOf(attempted) = <<PostUrgent, PostOld, PostLong>>

\* C4: a failed send does not abort the batch: in every cycle each post of
\* the ordered unpublished set gets exactly one send_post attempt, in that
\* order, whatever the outcome of the attempts before it.
C4_EveryPostAttemptedOnce ==
    [][ /\ pc' = "delivering" =>
              PostsOf(attempted') = SubSeq(sorted_posts', 1, Len(attempted'))
        /\ EndsDelivery => PostsOf(attempted) = sorted_posts ]_vars

\* a batch in which the first send failed and the two after it were made
C4_Witness ==
    /\ pc = "delivering"
    /\ Len(attempted) = 3
    /\ ~attempted[1].ok
    /\ ~attempted[2].ok
    /\ attempted[3].ok

\* C5: send_post reports success if and only if no send of a text segment
\* raised; a failed download or a failed send_document changes neither that
\* result nor the number of attachments attempted.
C5_SuccessIffTextSent ==
    (pc = "delivering" /\ attempted # <<>>) =>
        LET a == last_attempt
        IN  /\ a.out.result <=> a.fail_at = 0
            /\ a.out.result <=> a.out.parts_sent = a.out.parts
            /\ a.out.result => a.out.downloads = Len(a.post.attachments)
            /\ a.out.result = attempted[Len(attempted)].ok

\* a post reported as sent although one of its two attachments could not be
\* downloaded and the other could not be sent
C5_Witness ==
    /\ pc = "delivering"
    /\ attempted # <<>>
    /\ last_attempt.out.result
    /\ last_attempt.out.parts > 1
    /\ last_attempt.out.downloads = 2
    /\ last_attempt.out.downloaded = 1
    /\ last_attempt.out.documents = 0

\* ------------------------------------------- Storage.save / load alone
\* The history of a service is saved and, after a restart, loaded again and
\* compared with the snapshot its posts came from.
InitStore ==
    /\ pc = "store"
    /\ actual_posts \in SeqsUpTo(DiffPosts, MaxDiffLen)
    /\ current_posts = actual_posts
    /\ unpublished_posts = <<>>
    /\ sorted_posts = <<>>
    /\ successfully_sent_posts = <<>>
    /\ attempted = <<>>
    /\ last_attempt = NoAttempt
    /\ now = InitialNow
    /\ file = MissingFile
    /\ backups = {}
    /\ corrupted = {}
    /\ saved = "none"
    /\ raised = "none"
    /\ session_closed = FALSE
    /\ cleanup_done = FALSE
    /\ split_input = <<>>
    /\ split_text = <<>>
    /\ split_max_length = DefaultMaxLength
    /\ split_parts = <<>>
    /\ response = NoResponse
    /\ chat = Unwatched

\* self.storage.save(self.current_posts)
StoreSave ==
    /\ pc = "store"
    /\ file' = save(file, current_posts, "ok")
    /\ saved' = "merge"
    /\ pc' = "stored"
    /\ UNCHANGED <<now, backups, corrupted, raised, current_posts, cycle>>
    /\ UNCHANGED <<shutdown, splitting, outside>>

\* a new Service: self.current_posts = self.storage.load(NewsPost)
StoreLoad ==
    /\ pc = "stored"
    /\ current_posts' = load(file).result
    /\ file' = load(file).file
    /\ corrupted' = corrupted \cup load(file).corrupted
    /\ saved' = "none"
    /\ pc' = "loaded"
    /\ UNCHANGED <<now, backups, raised, cycle>>
    /\ UNCHANGED <<shutdown, splitting, outside>>

\* its first cycle fetches the same snapshot
StoreDetect ==
    /\ pc = "loaded"
    /\ unpublished_posts' = get_unpublished_posts(current_posts, actual_posts)
    /\ pc' = "detected"
    /\ UNCHANGED <<now, disk, raised, current_posts, actual_posts, sorted_posts,
                   successfully_sent_posts, attempted, last_attempt>>
    /\ UNCHANGED <<shutdown, splitting, outside>>

NextStore == StoreSave \/ StoreLoad \/ StoreDetect

SpecStore == InitStore /\ [][NextStore]_vars

\* C6: save followed by load returns posts equal to the saved ones, so a post
\* delivered before a restart is not unpublished after it.
C6_SaveLoadRoundTrip ==
    /\ pc \in {"loaded", "detected"} => current_posts = actual_posts
    /\ pc = "detected" => unpublished_posts = <<>>

\* -------------------------------------------------------------- startup
\* the step in which Service.__init__ loads the history
LoadsHistory == pc = "load" /\ pc' = "fetching"

\* C7: load on a history file that cannot be decoded returns an empty list,
\* leaves the original bytes in a file renamed to a .corrupted_<timestamp>
\* name, and does not raise.
C7_UndecodableFileIsQuarantined ==
    [][ (LoadsHistory /\ file.kind \in {"not_json", "not_posts"}) =>
            /\ current_posts' = <<>>
            /\ file \in corrupted'
            /\ raised' = "none" ]_vars

\* C8: whatever the history file is when the Service is constructed (missing,
\* valid or undecodable, below or above MAX_STORAGE_SIZE_MB), construction
\* does not raise (a StorageError of a failed write aside).
C8_StartupNeverRaises == pc = "crashed" => raised = "StorageError"

\* -------------------------------------------------- the persisted history
\* the posts of a history file, decoded
Decoded(f) == [i \in DOMAIN f.items |-> load_item(f.items[i])]

\* the history file as the rotation or the merge has just written it
JustSaved == saved \in {"rotate", "merge"} /\ file.kind = "posts"

\* C9: after a save of the rotation or of the merge no entry of the history
\* is older than MAX_POST_AGE_DAYS days at the time of the eviction filter.
C9_NoEntryOlderThanMaxAge ==
    JustSaved =>
        \A i \in DOMAIN file.items :
            now - Decoded(file)[i].posted_at.ticks <= MAX_POST_AGE_DAYS * DayLen

\* C10: every history written by the rotation or by the merge has at most
\* MAX_POSTS_COUNT entries and is sorted by posted_at, newest first.
C10_SavedHistoryCappedAndSorted ==
    JustSaved =>
        /\ Len(file.items) <= MAX_POSTS_COUNT
        /\ \A i, j \in DOMAIN file.items :
               i < j => Decoded(file)[i].posted_at.ticks
                        >= Decoded(file)[j].posted_at.ticks

\* the rotation has cut a longer, unsorted history down to the cap
C10_Witness ==
    /\ saved = "rotate"
    /\ file.kind = "posts"
    /\ Len(file.items) = MAX_POSTS_COUNT
    /\ \E b \in backups : b.kind = "posts" /\ Len(b.items) > MAX_POSTS_COUNT

\* ------------------------------------------------------ writes of the file
\* C11: the history file is persisted atomically: no step of the service
\* leaves an empty or partial document where the file was; after every step
\* the file is the one that was there before or a complete document.
C11_SaveIsAtomic ==
    [][ file' # file => file'.kind \in {"posts", "missing"} ]_vars

\* ------------------------------------------------------------- rotation
\* the step of Service.__init__ that runs _rotate_storage_if_needed
RotationStep == pc = "rotate" /\ pc' # "rotate"

\* the post is at most MAX_POST_AGE_DAYS days old at time t
WithinAgeCap(post, t) == t - post.posted_at.ticks <= MAX_POST_AGE_DAYS * DayLen

\* the entries of a history within the age cap, newest first, at most
\* MAX_POSTS_COUNT of them
Rotated(posts, t) ==
    LET kept   == sort_history(SelectSeq(posts, LAMBDA p : WithinAgeCap(p, t)))
    IN  SubSeq(kept, 1, IF Len(kept) < MAX_POSTS_COUNT THEN Len(kept)
                        ELSE MAX_POSTS_COUNT)

\* C12: if and only if the history file is larger than MAX_STORAGE_SIZE_MB
\* when the Service is constructed, the persisted history becomes the entries
\* of the old one within the age cap, sorted descending by posted_at and cut
\* to MAX_POSTS_COUNT, and exactly one backup with the old content is made;
\* otherwise file and backups are untouched; no backup is made later on.
C12_RotationAtStartup ==
    [][ /\ RotationStep =>
             IF file.size_mb > MAX_STORAGE_SIZE_MB
             THEN /\ backups' = {file}
                  /\ saved' = "rotate" =>
                         /\ file'.kind = "posts"
                         /\ Decoded(file') = Rotated(Decoded(file), now)
             ELSE /\ file' = file
                  /\ backups' = backups
        /\ pc \notin {"init", "rotate"} => backups' \subseteq backups ]_vars

\* ------------------------------------------------------- the poll loop
LoopStates == {"fetching", "detecting", "delivering", "sleeping"}

\* C13: the poll loop has no terminal state except cancellation: from every
\* state of a cycle the loop goes on within the loop (or is cancelled), every
\* cycle reaches its sleep whatever its outcome, the sleep is followed by
\* the fetch of a new cycle, and a cycle whose parser failed sends nothing
\* and changes neither the in-memory nor the persisted history.
C13_LoopNeverEnds ==
    /\ [][ /\ pc \in LoopStates => pc' \in LoopStates \cup {"exiting"}
           /\ (pc = "sleeping" /\ pc' \notin {"sleeping", "exiting"}) =>
                  pc' = "fetching"
           /\ (pc = "fetching" /\ pc' = "sleeping") =>
                  /\ current_posts' = current_posts
                  /\ file' = file
                  /\ attempted' = <<>> ]_vars
    /\ (pc \in {"fetching", "detecting", "delivering"}
           ~> pc \in {"sleeping", "exiting"})
    /\ (pc = "sleeping" ~> pc \in {"fetching", "exiting"})

\* a new cycle has started after a cycle whose merge raised
C13_Witness ==
    /\ pc = "fetching"
    /\ current_posts = <<PostAware, PostLong>>
    /\ ~OnDisk(file, PostLong)

\* the history is filtered by age, sorted newest first and cut to the cap
Merged(history, t) == history = evict(history, t)

\* C14: an error caught by the handler of the cycle causes no partial state
\* mutation: after the delivery block the in-memory history is the one the
\* cycle started with or a completely merged one, and the cycle sleeps.
C14_NoPartialMutation ==
    [][ EndsDelivery =>
            /\ current_posts' = current_posts \/ Merged(current_posts', now)
            /\ pc' = "sleeping" ]_vars

\* C15: a cancellation is taken at every await of start; after it no cycle
\* is started, start ends, and when it ends the transport session has been
\* closed and cleanup_old_backups has been run.
C15_CancellationStopsAndCleansUp ==
    /\ [](pc \in AwaitStates => ENABLED Cancel)
    /\ [][ /\ raised' = "CancelledError" => pc' \in {"exiting", "stopped"}
           /\ pc' = "stopped" => session_closed' /\ cleanup_done' ]_vars
    /\ (raised = "CancelledError" ~> pc = "stopped")

\* start has ended after a cancellation that came when a history was loaded
C15_Witness ==
    /\ pc = "stopped"
    /\ raised = "CancelledError"
    /\ session_closed
    /\ cleanup_done
    /\ current_posts # <<>>

\* C16: a cycle whose snapshot has no unpublished post, whatever history
\* entries the snapshot lacks, sends nothing and leaves the in-memory history
\* and the history file as they were.
C16_NoPruningByAbsence ==
    [][ /\ pc \in {"fetching", "detecting"} =>
              current_posts' = current_posts /\ file' = file
        /\ (/\ pc = "detecting"
            /\ get_unpublished_posts(current_posts, actual_posts) = <<>>) =>
               /\ pc' = "sleeping"
               /\ attempted' = <<>>
        /\ (pc = "sleeping" /\ attempted = <<>>) =>
               current_posts' = current_posts /\ file' = file ]_vars

\* a cycle has ended whose snapshot lacked an entry of the history
C16_Witness ==
    /\ pc = "sleeping"
    /\ attempted = <<>>
    /\ actual_posts = <<PostLong>>
    /\ unpublished_posts = <<>>
    /\ current_posts = <<PostLong, PostOld>>
    /\ OnDisk(file, PostOld)

\* --------------------------------------------------- split_message alone
\* the characters of the texts: a letter, the two separators, a blank
SplitChars == {"a", ".", "\n", " "}

InitSplit ==
    /\ pc = "split_call"
    /\ split_input \in SeqsUpTo(SplitChars, MaxTextLen)
    /\ split_text = split_input
    /\ split_max_length \in 1..MaxSplitLength
    /\ split_parts = <<>>
    /\ response = NoResponse
    /\ chat = Unwatched
    /\ now = InitialNow
    /\ file = MissingFile
    /\ backups = {}
    /\ corrupted = {}
    /\ saved = "none"
    /\ raised = "none"
    /\ current_posts = <<>>
    /\ actual_posts = <<>>
    /\ unpublished_posts = <<>>
    /\ sorted_posts = <<>>
    /\ successfully_sent_posts = <<>>
    /\ attempted = <<>>
    /\ last_attempt = NoAttempt
    /\ session_closed = FALSE
    /\ cleanup_done = FALSE
    /\ response = NoResponse
    /\ chat = Unwatched

\* if len(text) <= max_length: return [text]; otherwise parts = []
SplitEnter ==
    /\ pc = "split_call"
    /\ IF Len(split_text) <= split_max_length
       THEN /\ split_parts' = <<split_text>>
            /\ pc' = "split_done"
       ELSE /\ split_parts' = <<>>
            /\ pc' = "split_loop"
    /\ UNCHANGED <<now, disk, raised, current_posts, cycle, shutdown,
                   split_input, split_text, split_max_length, outside>>

\* one pass of `while text:`
SplitStep ==
    /\ pc = "split_loop"
    /\ IF split_text = <<>>
       THEN /\ pc' = "split_done"
            /\ UNCHANGED <<split_text, split_parts>>
       ELSE IF Len(split_text) <= split_max_length
       THEN /\ split_parts' = Append(split_parts, split_text)
            /\ pc' = "split_done"
            /\ UNCHANGED split_text
       ELSE LET cut == split_idx(split_text, split_max_length)
            IN  /\ split_parts' = Append(split_parts, SubSeq(split_text, 1, cut))
                /\ split_text' =
                       lstrip(SubSeq(split_text, cut + 1, Len(split_text)))
                /\ pc' = "split_loop"
    /\ UNCHANGED <<now, disk, raised, current_posts, cycle, shutdown,
                   split_input, split_max_length, outside>>

NextSplit == SplitEnter \/ SplitStep

SpecSplit == InitSplit /\ [][NextSplit]_vars

\* the call is run to its end
SpecSplitLive == SpecSplit /\ WF_vars(NextSplit)

\* C17: every segment returned by split_message(text, maxLength), for every
\* text and every maxLength >= 1, has at most maxLength characters.
C17_SegmentsWithinMaxLength ==
    \A i \in DOMAIN split_parts : Len(split_parts[i]) <= split_max_length

\* a text cut into three segments, one of them of the full length
C17_Witness ==
    /\ pc = "split_done"
    /\ split_max_length > 1
    /\ Len(split_parts) = 3
    /\ \E i \in DOMAIN split_parts : Len(split_parts[i]) = split_max_length

\* the text t, from position pos on, is segs[k], whitespace, segs[k + 1],
\* whitespace, .. , segs[Len(segs)], followed by `tail` and nothing else
RECURSIVE Rebuilds(_, _, _, _, _)
Rebuilds(segs, k, t, pos, tail) ==
    IF k > Len(segs)
    THEN pos = Len(t) + 1
    ELSE LET stop == pos + Len(segs[k]) - 1
         IN  /\ stop <= Len(t)
             /\ SubSeq(t, pos, stop) = segs[k]
             /\ \E gap \in 0..(Len(t) - stop) :
                    /\ \A i \in (stop + 1)..(stop + gap) : t[i] \in Whitespace
                    /\ IF k = Len(segs)
                       THEN gap \in tail /\ stop + gap = Len(t)
                       ELSE Rebuilds(segs, k + 1, t, stop + gap + 1, tail)

\* a text that fits is returned unchanged as the only segment
ShortTextUnchanged ==
    Len(split_input) <= split_max_length => split_parts = <<split_input>>

\* C18 as stated: the text is rebuilt from the segments, in order, by
\* inserting only whitespace between consecutive segments; a text that fits
\* is returned unchanged as a single segment.
C18_RebuiltWithGapsBetweenSegments ==
    pc = "split_done" =>
        /\ Rebuilds(split_parts, 1, split_input, 1, {0})
        /\ ShortTextUnchanged

\* C18 as amended: the text is rebuilt from the segments, in order, by
\* inserting only whitespace between consecutive segments and after the
\* last one; a text that fits is returned unchanged as a single segment.
C18_RebuiltWithWhitespaceOnly ==
    pc = "split_done" =>
        /\ Rebuilds(split_parts, 1, split_input, 1, 0..Len(split_input))
        /\ ShortTextUnchanged

\* blanks were dropped at the cut between two segments
C18_Witness ==
    /\ pc = "split_done"
    /\ split_input = <<"a", ".", " ", " ", "a">>
    /\ split_parts = << <<"a", ".">>, <<"a">> >>

\* the positions of ch in the first n characters of t
Occurrences(t, n, ch) == {i \in 1..n : i <= Len(t) /\ t[i] = ch}

\* the last position of ch in the first n characters of t
LastOccurrence(t, n, ch) ==
    CHOOSE i \in Occurrences(t, n, ch) : \A j \in Occurrences(t, n, ch) : j <= i

\* C19: for a text longer than maxLength with its last newline inside the
\* first maxLength characters at index p, the first segment is text[0:p] (the
\* characters before the newline) and the next segment starts with the
\* remainder after the newline.
C19_FirstSegmentEndsBeforeNewline ==
    ( /\ pc = "split_done"
      /\ Len(split_input) > split_max_length
      /\ Occurrences(split_input, split_max_length, "\n") # {} ) =>
        LET p == LastOccurrence(split_input, split_max_length, "\n")
            remainder == lstrip(SubSeq(split_input, p + 1, Len(split_input)))
        IN  /\ split_parts[1] = SubSeq(split_input, 1, p - 1)
            /\ remainder # <<>> =>
                   /\ Len(split_parts) >= 2
                   /\ split_parts[2] =
                          SubSeq(remainder, 1, Len(split_parts[2]))

\* the step of the loop that cuts a part off a text that does not fit
Cuts == pc = "split_loop" /\ Len(split_text) > split_max_length

\* a cut after the first n characters: the part cut off and the text left
CutAfter(n) ==
    /\ split_parts' = Append(split_parts, SubSeq(split_text, 1, n))
    /\ split_text' = lstrip(SubSeq(split_text, n + 1, Len(split_text)))

\* a cut at the separator at position q: the part is the text before the
\* separator, with or without the separator, and the text left is what
\* follows the separator
CutAt(q) ==
    /\ \/ split_parts' = Append(split_parts, SubSeq(split_text, 1, q))
       \/ split_parts' = Append(split_parts, SubSeq(split_text, 1, q - 1))
    /\ split_text' = lstrip(SubSeq(split_text, q + 1, Len(split_text)))

\* C20: whenever the remaining text is longer than maxLength the cut is made
\* at the last newline of the first maxLength characters if there is one,
\* otherwise at the last period of them if there is one, otherwise exactly
\* after maxLength characters; each cut shortens the remaining text, and the
\* call ends.
C20_CutPriorityAndTermination ==
    /\ [][ Cuts =>
             /\ IF Occurrences(split_text, split_max_length, "\n") # {}
                THEN CutAt(LastOccurrence(split_text, split_max_length, "\n"))
                ELSE IF Occurrences(split_text, split_max_length, ".") # {}
                THEN CutAt(LastOccurrence(split_text, split_max_length, "."))
                ELSE CutAfter(split_max_length)
             /\ Len(split_text') < Len(split_text) ]_vars
    /\ <>(pc = "split_done")

\* a call that made a cut of each kind: at a newline, at a period, a hard one
C20_Witness ==
    /\ pc = "split_done"
    /\ split_max_length = 1
    /\ split_input = <<"\n", ".", "a", " ", "a">>
    /\ split_parts = << <<"\n">>, <<".">>, <<"a">>, <<"a">> >>

\* -------------------------------------------------- delivery over cycles
\* the snapshot of the cycle contains p (looked at when the fetch has returned)
InSnapshot(p) == pc = "detecting" => p \in Range(actual_posts)

\* the cycle has sent p and has merged it into the history
SentAndMerged(p) ==
    /\ pc = "sleeping"
    /\ p \in SentIn(attempted)
    /\ p \in Range(current_posts)

\* C21: if a post is in every snapshot from some cycle on, fetches succeed
\* again and again, and the sends of the post do not fail forever, then the
\* post is eventually sent successfully and merged into the history.
C21_EventualDelivery ==
    \A p \in Posts :
        ( /\ <>[]InSnapshot(p)
          /\ []<>(pc = "detecting")
          /\ []<>(p \in SentIn(attempted)) )
        => <>SentAndMerged(p)

\* C22: if every send of a cycle succeeds (or the cycle has nothing to send),
\* a next cycle that fetches the same snapshot sends no post: nothing of the
\* snapshot is unpublished against the history the cycle leaves, which is
\* the history the next cycle compares with.
C22_SecondCycleSendsNothing ==
    [][ /\ (EndsDelivery /\ FailedIn(attempted) = {}) =>
               get_unpublished_posts(current_posts', actual_posts) = <<>>
        /\ (pc = "detecting" /\ pc' = "sleeping") =>
               get_unpublished_posts(current_posts', actual_posts) = <<>>
        /\ pc \in {"sleeping", "fetching"} => current_posts' = current_posts
      ]_vars

\* --------------------------------------------------- Bs4NewsParser alone
\* The cycle is at `await self.parser.parse()` with a Bs4NewsParser, and the
\* site answers with some page.
InitParse ==
    /\ pc = "fetching"
    /\ response \in Responses
    /\ chat = Unwatched
    /\ now = InitialNow
    /\ file = MissingFile
    /\ backups = {}
    /\ corrupted = {}
    /\ saved = "none"
    /\ raised = "none"
    /\ current_posts = <<>>
    /\ actual_posts = <<>>
    /\ unpublished_posts = <<>>
    /\ sorted_posts = <<>>
    /\ successfully_sent_posts = <<>>
    /\ attempted = <<>>
    /\ last_attempt = NoAttempt
    /\ session_closed = FALSE
    /\ cleanup_done = FALSE
    /\ split_input = <<>>
    /\ split_text = <<>>
    /\ split_max_length = DefaultMaxLength
    /\ split_parts = <<>>

\* start(): actual_posts = await self.parser.parse(), and the handler of its
\* exceptions, which logs, sleeps and goes on with the next cycle
ParsePage ==
    /\ pc = "fetching"
    /\ LET parsed == parse(response)
       IN  IF parsed.raised = "none"
           THEN /\ actual_posts' = parsed.posts
                /\ pc' = "detecting"
           ELSE /\ pc' = "sleeping"
                /\ UNCHANGED actual_posts
    /\ UNCHANGED <<now, disk, raised, current_posts, unpublished_posts,
                   sorted_posts, successfully_sent_posts, attempted, last_attempt>>
    /\ UNCHANGED <<shutdown, splitting, outside>>

NextParse == ParsePage

SpecParse == InitParse /\ [][NextParse]_vars

\* the response is a 2xx one and every news item of the page has the
\* expected structure and a recognisable date
WellFormedPage ==
    /\ response.ok
    /\ \A i \in DOMAIN response.items : response.items[i].kind = "well_formed"

\* C23: for a 2xx response whose news items are all well-formed, parse does
\* not raise and returns one NewsPost per news item: the cycle goes on to
\* the detection with a snapshot as long as the list of the items.
C23_WellFormedPageIsParsed ==
    [][ (pc = "fetching" /\ WellFormedPage) =>
            /\ pc' = "detecting"
            /\ Len(actual_posts') = Len(response.items) ]_vars

\* ------------------------------------------------ retry of a partial send
\* the step is a send_post call for p
Sends(p) ==
    /\ pc = "delivering"
    /\ Len(attempted') = Len(attempted) + 1
    /\ last_attempt'.post = p

\* C24: when the send of segment k of a post fails after segments 1..k-1
\* went out, send_post reports failure and the post is not merged into the
\* history; the next cycle whose snapshot contains the post finds it
\* unpublished, and its send_post call starts with segment 1 again, so the
\* chat gets the first segments a second time.
C24_PartialSendIsRetriedFromStart ==
    [][ \A p \in Posts :
          /\ Sends(p) =>
               LET a == last_attempt'
               IN  /\ a.fail_at >= 1 =>
                         /\ ~a.out.result
                         /\ a.out.parts_sent = a.fail_at - 1
                         /\ successfully_sent_posts' = successfully_sent_posts
                   /\ a.fail_at = 0 => a.out.parts_sent = a.out.parts
                   /\ (a.fail_at >= 2 /\ chat.watched) => p \in chat'.partial
                   /\ (p \in chat.partial /\ a.fail_at # 1) => p \in chat'.repeated
          /\ p \in chat.partial => p \notin Range(current_posts')
          /\ (pc = "detecting" /\ p \in chat.partial /\ p \in Range(actual_posts)) =>
                 /\ p \in Range(unpublished_posts')
                 /\ pc' = "delivering"
      ]_vars

\* PostLong has just been sent completely, in a cycle after the one whose
\* send of its second segment failed: the chat has its first segment twice
C24_Witness ==
    /\ pc = "delivering"
    /\ last_attempt.post = PostLong
    /\ last_attempt.out.result
    /\ last_attempt.out.parts_sent = 2
    /\ chat.repeated = {PostLong}
    /\ chat.partial = {}

====
